---- MODULE Spec2Model ----
(***************************************************************************)
(* Model of the dataset library: the cache-through pair of save.py         *)
(* (AutoSavingDataset over a source and a SavingDataset destination, with  *)
(* SavingDataset.save_dataset), the parent/child shared resource of        *)
(* tree.py and the key subsets of core.py / save.py.                       *)
(*                                                                         *)
(* The library is single threaded: a call runs to its end before the next  *)
(* one starts.  save_dataset is modelled line by line (pc) because its     *)
(* claims are about the order of its delete / read / save and about an     *)
(* abort between them; every other call is one action.                     *)
(*                                                                         *)
(* Collaborators (the source's read, the destination's save_item, the      *)
(* stores' open and close) may raise: each such call draws its outcome     *)
(* from BOOLEAN.                                                           *)
(***************************************************************************)
EXTENDS Integers, FiniteSets, Sequences, TLC

\* ---- bounds ----
NumKeys == 2
NumVals == 2
NumChildren == 2
\* the parent's calls of the base's open and close are counted up to here
MaxBaseCalls == 3
\* number of datasets combined by a CompoundDataset / ZippedDataset
NumDatasets == 2

Keys == 1..NumKeys
Values == 1..NumVals
Children == 1..NumChildren
Positions == 1..NumDatasets

\* a dict: a function from a finite set of keys to values
Dicts == UNION {[S -> Values] : S \in SUBSET Keys}
EmptyDict == [k \in {} |-> 0]

VARIABLES
    \* --- the cache-through pair (save.py) ---
    src,            \* AutoSavingDataset._src contents
    dst,            \* AutoSavingDataset._dst contents
    src_open,       \* src.is_open
    dst_open,       \* dst.is_open
    pc,             \* position inside save_dataset: idle / loop / read / save
    todo,           \* keys the for loop of save_dataset has not visited yet
    cur,            \* loop variable `key`
    val,            \* local `value`
    overwrite,      \* argument of the running / last save_dataset
    show_progress,  \* argument of the running / last save_dataset
    dst_before,     \* destination at the start of the last call (history)
    \* --- parent / child (tree.py) ---
    open_children,  \* ParentDataset._open_children
    base_is_open,   \* is_open of the parent's base
    base_open0,     \* is_open of the base before any child call (history)
    base_opens,     \* number of calls of the base's open by the parent
    base_closes,    \* number of calls of the base's close by the parent
    \* --- key subsets (core.py, save.py) ---
    store,          \* contents of the subset's base dataset
    store_open,     \* is_open of the subset's base dataset
    sub_kind,       \* class of the subset object, "none" before construction
    sub_keys,       \* DataSubset._keys
    sub_check,      \* DataSubset._check_present
    sub_req,        \* check_present the subset was constructed with (history)
    \* --- the subset of a pair (AutoSavingDataset.subset, save.py) ---
    view_made,      \* whether a subset pair has been made
    view_keys,      \* keys of its source, source.subset(keys)
    \* --- combined datasets (CompoundDataset / ZippedDataset, core.py) ---
    zkind,          \* class of the combined dataset: "compound" / "zipped"
    kids,           \* contents of the combined datasets, by position
    kids_open,      \* is_open of the combined datasets, by position
    zcache,         \* self._keys: "unset" (no attribute), "None" or "set"
    zkeys,          \* the key set held by self._keys when zcache = "set"
    \* --- a store (JsonDataset, Hdf5Dataset, ZipFileDataset) ---
    st_kind,        \* class of the store: "json" / "hdf5" / "zip"
    st_mode,        \* its mode: "r" / "a" / "w"
    file_state,     \* the file at its path: "absent", "dict" or "null"
    file_data,      \* contents of the file when file_state = "dict"
    mem_state,      \* _base / _file: "None", "dict" (loaded) or "handle"
    mem_data,       \* the loaded dict when mem_state = "dict"
    \* --- the last call ---
    op,             \* name of the last call
    prev_op,        \* name of the call before it
    arg,            \* its key / child argument
    ret,            \* how it ended: returned, or the error raised
    out,            \* the value it returned (0: none)
    outs,           \* the tuple of values it returned (<<>>: none)
    kset,           \* the key set it was given or returned ({}: none)
    flag,           \* its check_present argument (FALSE: none)
    ev              \* collaborator calls made by the last step

pairVars == <<src, dst, src_open, dst_open, pc, todo, cur, val, overwrite,
              show_progress, dst_before>>
treeVars == <<open_children, base_is_open, base_open0, base_opens,
              base_closes>>
subVars == <<store, store_open, sub_kind, sub_keys, sub_check, sub_req>>
viewVars == <<view_made, view_keys>>
zipVars == <<zkind, kids, kids_open, zcache, zkeys>>
storeVars == <<st_kind, st_mode, file_state, file_data, mem_state, mem_data>>
callVars == <<op, prev_op, arg, ret, out, outs, kset, flag, ev>>
vars == <<src, dst, src_open, dst_open, pc, todo, cur, val, overwrite,
          show_progress, dst_before, open_children, base_is_open, base_open0,
          base_opens, base_closes, store, store_open, sub_kind, sub_keys,
          sub_check, sub_req, view_made, view_keys, zkind, kids, kids_open,
          zcache, zkeys, st_kind, st_mode, file_state, file_data, mem_state,
          mem_data, op, prev_op, arg, ret, out, outs, kset, flag, ev>>

\* what the calls of one component leave alone
outsidePair == <<treeVars, subVars, viewVars, zipVars, storeVars>>
outsideTree == <<pairVars, subVars, viewVars, zipVars, storeVars>>
outsideSub == <<pairVars, treeVars, viewVars, zipVars, storeVars>>
outsideView == <<treeVars, subVars, zipVars, storeVars>>
outsideZip == <<pairVars, treeVars, subVars, viewVars, storeVars>>
outsideStore == <<pairVars, treeVars, subVars, viewVars, zipVars>>

\* dict[key] = value
Put(d, k, v) == [x \in (DOMAIN d) \cup {k} |-> IF x = k THEN v ELSE d[x]]
\* del dict[key]
Remove(d, k) == [x \in (DOMAIN d) \ {k} |-> d[x]]

PairIdle ==
    /\ src_open = FALSE /\ dst_open = FALSE
    /\ pc = "idle" /\ todo = {} /\ cur = 0 /\ val = 0
    /\ overwrite = FALSE /\ show_progress = TRUE
TreeIdle ==
    /\ open_children = {} /\ base_is_open = FALSE /\ base_open0 = FALSE
    /\ base_opens = 0 /\ base_closes = 0
SubIdle ==
    /\ store = EmptyDict /\ store_open = FALSE
    /\ sub_kind = "none" /\ sub_keys = {} /\ sub_check = TRUE
    /\ sub_req = TRUE
ViewIdle ==
    /\ view_made = FALSE /\ view_keys = {}
ZipIdle ==
    /\ zkind = "zipped" /\ kids = [i \in Positions |-> EmptyDict]
    /\ kids_open = [i \in Positions |-> FALSE]
    /\ zcache = "None" /\ zkeys = {}
StoreIdle ==
    /\ st_kind = "json" /\ st_mode = "r"
    /\ file_state = "absent" /\ file_data = EmptyDict
    /\ mem_state = "None" /\ mem_data = EmptyDict
CallIdle ==
    /\ op = "init" /\ prev_op = "init" /\ arg = 0 /\ ret = "none"
    /\ out = 0 /\ outs = <<>> /\ kset = {} /\ flag = FALSE /\ ev = {}

\* the record of a call: what was called, with what, and how it ended
Called(name, a, r, o, e) ==
    /\ op' = name /\ prev_op' = op /\ arg' = a /\ ret' = r /\ out' = o
    /\ ev' = e
    /\ outs' = <<>> /\ kset' = {} /\ flag' = FALSE

\* the record of a call that takes or returns a key set or a tuple
CalledWith(name, a, r, os, ks, fl, e) ==
    /\ op' = name /\ prev_op' = op /\ arg' = a /\ ret' = r /\ out' = 0
    /\ ev' = e
    /\ outs' = os /\ kset' = ks /\ flag' = fl

(***************************************************************************)
(* The cache-through pair                                                  *)
(***************************************************************************)

\* AutoSavingDataset.__getitem__: `if key in self._dst`
CacheMiss(key) == FALSE
CacheHit(key) == key \in DOMAIN dst

\* AutoSavingDataset.__getitem__ on an open pair.  srcOk / saveOk: whether
\* the source's read and the destination's save_item succeed.
Get(key, srcOk, saveOk) ==
    /\ pc = "idle" /\ src_open /\ dst_open
    /\ dst_before' = dst
    /\ IF CacheHit(key)
       THEN /\ Called("get", key, "returned", dst[key], {})
            /\ dst' = dst
       ELSE IF ~(srcOk /\ key \in DOMAIN src)
       THEN /\ Called("get", key, "src_error", 0, {"src_read"})
            /\ dst' = dst
       ELSE IF ~saveOk
       THEN /\ Called("get", key, "dst_error", 0, {"src_read", "save_item"})
            /\ dst' = dst
       ELSE /\ Called("get", key, "returned", src[key],
                      {"src_read", "save_item"})
            /\ dst' = Put(dst, key, src[key])
    /\ UNCHANGED <<src, src_open, dst_open, pc, todo, cur, val, overwrite,
                   show_progress>>
    /\ UNCHANGED outsidePair

\* SavingDataset.save_dataset: `if not overwrite: keys = [k for k in keys
\* if k not in self]`
AllSourceKeys(ow) == DOMAIN src
KeysToSave(ow) ==
    IF ow THEN DOMAIN src ELSE {k \in DOMAIN src : k \notin DOMAIN dst}

\* AutoSavingDataset.save_all -> SavingDataset.save_dataset, up to the
\* creation of the progress bar.  msg: whether `message` is not None.
SaveAll(ow, sp, msg) ==
    /\ pc = "idle"
    /\ dst_before' = dst /\ overwrite' = ow /\ show_progress' = sp
    /\ IF ~dst_open
       THEN /\ Called("save_all", 0, "IOError", 0, {})
            /\ UNCHANGED <<pc, todo>>
       ELSE IF KeysToSave(ow) = {}
       THEN /\ Called("save_all", 0, "returned", 0, {})
            /\ UNCHANGED <<pc, todo>>
       ELSE /\ Called("save_all", 0, "none", 0,
                      (IF msg THEN {"message"} ELSE {})
                      \cup (IF sp THEN {"bar_init"} ELSE {}))
            /\ pc' = "loop" /\ todo' = KeysToSave(ow)
    /\ UNCHANGED <<src, dst, src_open, dst_open, cur, val>>
    /\ UNCHANGED outsidePair

\* save_dataset: `if key in self: self.delete_item(key)`
NeverDelete(key) == FALSE
NeedsDelete(key) == key \in DOMAIN dst

\* save_dataset, top of one loop iteration: `for key in keys: bar.next();
\* if key in self: self.delete_item(key)`.  The order of keys() is the
\* source's: any.
LoopDelete(key) ==
    /\ pc = "loop" /\ key \in todo
    /\ todo' = todo \ {key} /\ cur' = key /\ pc' = "read"
    /\ dst' = IF NeedsDelete(key) THEN Remove(dst, key) ELSE dst
    /\ ev' = (IF show_progress THEN {"bar_next"} ELSE {})
             \cup (IF NeedsDelete(key) THEN {"delete_item"} ELSE {})
    /\ UNCHANGED <<src, src_open, dst_open, val, overwrite, show_progress,
                   dst_before, op, prev_op, arg, ret, out, outs,
                   kset, flag>>
    /\ UNCHANGED outsidePair

\* save_dataset: `value = dataset[key]`; a raise ends the call
LoopRead(srcOk) ==
    /\ pc = "read"
    /\ ev' = {"src_read"}
    /\ IF srcOk
       THEN /\ val' = src[cur] /\ pc' = "save" /\ ret' = ret
       ELSE /\ val' = val /\ pc' = "idle" /\ ret' = "src_error"
    /\ UNCHANGED <<src, dst, src_open, dst_open, todo, cur, overwrite,
                   show_progress, dst_before, op, prev_op, arg, out,
                   outs, kset, flag>>
    /\ UNCHANGED outsidePair

\* save_dataset: `self.save_item(key, value)`; a raise ends the call
LoopSave(saveOk) ==
    /\ pc = "save"
    /\ ev' = {"save_item"}
    /\ IF saveOk
       THEN /\ dst' = Put(dst, cur, val) /\ pc' = "loop" /\ ret' = ret
       ELSE /\ dst' = dst /\ pc' = "idle" /\ ret' = "dst_error"
    /\ UNCHANGED <<src, src_open, dst_open, todo, cur, val, overwrite,
                   show_progress, dst_before, op, prev_op, arg, out,
                   outs, kset, flag>>
    /\ UNCHANGED outsidePair

\* save_dataset: `bar.finish()` after the loop.  DummyBar.finish is
\* declared without `self`, so calling it on the instance raises TypeError.
LoopFinish ==
    /\ pc = "loop" /\ todo = {}
    /\ pc' = "idle"
    /\ IF show_progress
       THEN ret' = "returned" /\ ev' = {"bar_finish"}
       ELSE ret' = "TypeError" /\ ev' = {}
    /\ UNCHANGED <<src, dst, src_open, dst_open, todo, cur, val, overwrite,
                   show_progress, dst_before, op, prev_op, arg, out,
                   outs, kset, flag>>
    /\ UNCHANGED outsidePair

\* AutoSavingDataset.open: `self.src.open(); self.dst.open()`
Open(srcOk, dstOk) ==
    /\ pc = "idle"
    /\ dst_before' = dst
    /\ IF ~srcOk
       THEN /\ Called("open", 0, "src_error", 0, {"src_open"})
            /\ UNCHANGED <<src_open, dst_open>>
       ELSE IF ~dstOk
       THEN /\ Called("open", 0, "dst_error", 0, {"src_open", "dst_open"})
            /\ src_open' = TRUE /\ dst_open' = dst_open
       ELSE /\ Called("open", 0, "returned", 0, {"src_open", "dst_open"})
            /\ src_open' = TRUE /\ dst_open' = TRUE
    /\ UNCHANGED <<src, dst, pc, todo, cur, val, overwrite, show_progress>>
    /\ UNCHANGED outsidePair

\* AutoSavingDataset.close: `self.dst.close(); self.src.close()`
Close(dstOk, srcOk) ==
    /\ pc = "idle"
    /\ dst_before' = dst
    /\ IF ~dstOk
       THEN /\ Called("close", 0, "dst_error", 0, {"dst_close"})
            /\ UNCHANGED <<src_open, dst_open>>
       ELSE IF ~srcOk
       THEN /\ Called("close", 0, "src_error", 0, {"dst_close", "src_close"})
            /\ dst_open' = FALSE /\ src_open' = src_open
       ELSE /\ Called("close", 0, "returned", 0, {"dst_close", "src_close"})
            /\ dst_open' = FALSE /\ src_open' = FALSE
    /\ UNCHANGED <<src, dst, pc, todo, cur, val, overwrite, show_progress>>
    /\ UNCHANGED outsidePair

PairInit ==
    /\ src \in Dicts /\ dst \in Dicts /\ dst_before = dst
    /\ PairIdle /\ TreeIdle /\ SubIdle /\ CallIdle
    /\ ViewIdle /\ ZipIdle /\ StoreIdle

PairNext ==
    \/ \E k \in Keys, a, b \in BOOLEAN : Get(k, a, b)
    \/ \E ow, sp, msg \in BOOLEAN : SaveAll(ow, sp, msg)
    \/ \E k \in Keys : LoopDelete(k)
    \/ \E a \in BOOLEAN : LoopRead(a)
    \/ \E a \in BOOLEAN : LoopSave(a)
    \/ LoopFinish
    \/ \E a, b \in BOOLEAN : Open(a, b)
    \/ \E a, b \in BOOLEAN : Close(a, b)

SpecPair == PairInit /\ [][PairNext]_vars

\* the save_dataset call has run its loop to the end (bar.finish reached)
LoopCompleted(r) == r \in {"returned", "TypeError"}

(***************************************************************************)
(* Properties of the cache-through pair                                    *)
(***************************************************************************)

\* C1: get(k) on an open pair.  If k is in the destination, get returns the
\* destination's value, reads nothing from the source and leaves the
\* destination as it is.  If k is not in the destination and get returns, it
\* returns the source's value and the destination then holds that value
\* under k; if get raises instead, the destination is unchanged.
C1_GetCacheThrough ==
    [][op' = "get" =>
        /\ arg' \in DOMAIN dst =>
              /\ ret' = "returned" /\ out' = dst[arg']
              /\ "src_read" \notin ev' /\ dst' = dst
        /\ (arg' \notin DOMAIN dst /\ ret' = "returned") =>
              /\ arg' \in DOMAIN src /\ out' = src[arg']
              /\ "src_read" \in ev'
              /\ arg' \in DOMAIN dst' /\ dst'[arg'] = out'
              /\ \A k \in DOMAIN dst : k \in DOMAIN dst' /\ dst'[k] = dst[k]
        /\ (arg' \notin DOMAIN dst /\ ret' # "returned") => dst' = dst
    ]_vars

\* a get that missed: the value came from the source and is now cached
C1_Witness ==
    /\ op = "get" /\ ret = "returned" /\ "src_read" \in ev
    /\ arg \notin DOMAIN dst_before
    /\ arg \in DOMAIN dst /\ dst[arg] = out /\ out = src[arg]

\* C2: the source is read for a key only at a moment when that key is
\* absent from the destination; and in get and in save_all(overwrite=False)
\* the key read was absent from the destination when the call started (a
\* key present in the destination is not re-read without overwrite).
C2_ReadOnlyWhenAbsent ==
    [][LET key == IF op' = "get" THEN arg' ELSE cur
       IN  "src_read" \in ev' =>
              /\ key \notin DOMAIN dst
              /\ (op' = "get" \/ ~overwrite') =>
                     key \notin DOMAIN dst_before'
    ]_vars

\* save_all(overwrite=False) has just read one key from the source while
\* another key was already in the destination
C2_Witness ==
    /\ op = "save_all" /\ ~overwrite /\ pc = "save" /\ "src_read" \in ev
    /\ cur \notin DOMAIN dst_before /\ dst_before # EmptyDict

\* C3: when save_all(overwrite=False) has run to the end, every source key
\* is in the destination, with the source's value if it was absent before
\* the call and with its previous value otherwise; a save_all(overwrite=
\* False) called right after that is a no-op: it returns without any source
\* read, delete_item, save_item, message or progress event and leaves the
\* destination unchanged.
C3_SaveAllFillsThenNoop ==
    [][/\ (op' = "save_all" /\ ~overwrite' /\ pc' = "idle"
             /\ LoopCompleted(ret')) =>
            \A k \in DOMAIN src :
               /\ k \in DOMAIN dst'
               /\ dst'[k] = IF k \in DOMAIN dst_before'
                            THEN dst_before'[k] ELSE src[k]
       /\ (op = "save_all" /\ ~overwrite /\ pc = "idle" /\ LoopCompleted(ret)
             /\ op' = "save_all" /\ ~overwrite') =>
            /\ ev' = {} /\ dst' = dst /\ pc' = "idle" /\ ret' = "returned"
    ]_vars

\* the second of two save_all(overwrite=False) calls has returned without
\* doing anything, on a destination that holds every key of the source
C3_Witness ==
    /\ op = "save_all" /\ prev_op = "save_all" /\ ~overwrite
    /\ pc = "idle" /\ ret = "returned" /\ ev = {} /\ dst = dst_before
    /\ DOMAIN src # {} /\ DOMAIN src \subseteq DOMAIN dst

\* C4: when save_all(overwrite=True) has run to the end, destination[k] =
\* source[k] for every source key k; a key that is in the destination when
\* its iteration starts is removed with delete_item before the source is
\* read, and save_item is never called for a key that is still in the
\* destination.
C4_OverwriteDeletesFirst ==
    [][/\ (op' = "save_all" /\ overwrite' /\ pc' = "idle"
             /\ LoopCompleted(ret')) =>
            \A k \in DOMAIN src : k \in DOMAIN dst' /\ dst'[k] = src[k]
       /\ (op' = "save_all" /\ pc = "loop" /\ pc' = "read"
             /\ cur' \in DOMAIN dst) =>
            "delete_item" \in ev' /\ cur' \notin DOMAIN dst'
       /\ (op' = "save_all" /\ "save_item" \in ev') => cur \notin DOMAIN dst
    ]_vars

\* an overwrite has replaced a stale value by the source's
C4_Witness ==
    /\ op = "save_all" /\ overwrite /\ pc = "idle" /\ ret = "returned"
    /\ \E k \in DOMAIN dst_before \cap DOMAIN src :
          dst_before[k] # src[k] /\ dst[k] = src[k]

\* C5: if save_dataset(overwrite=True) aborts on a failing source read or
\* save_item, every key that was in the destination before the call is
\* still present, with its old value or with the source's value.
C5_AbortKeepsKeys ==
    (op = "save_all" /\ overwrite /\ pc = "idle"
       /\ ret \in {"src_error", "dst_error"}) =>
        \A k \in DOMAIN dst_before :
           /\ k \in DOMAIN dst
           /\ \/ dst[k] = dst_before[k]
              \/ k \in DOMAIN src /\ dst[k] = src[k]

\* C8: an open() of the pair that fails leaves no dataset open that was not
\* open before the call.
C8_FailedOpenClosesOpened ==
    [][(op' = "open" /\ ret' # "returned") =>
          (src_open' = src_open /\ dst_open' = dst_open)]_vars

\* C9: after close() of the pair has returned, or has raised because the
\* destination's close failed, the source is closed.
C9_CloseClosesSource ==
    (op = "close" /\ ret \in {"returned", "dst_error"}) => ~src_open

(***************************************************************************)
(* Parent / child: child views sharing the parent's base (tree.py)         *)
(***************************************************************************)

\* ParentDataset._on_child_opened: `if child in self._open_children`
NeverRegistered(child) == FALSE
AlreadyRegistered(child) == child \in open_children

\* ParentDataset._on_child_closed: `if len(self._open_children) == 0`,
\* evaluated on the set after the remove
AnyChildClosed(children) == TRUE
LastChildClosed(children) == children = {}

\* ParentDataset.is_open (DelegatingDataset.is_open): the base's is_open
ParentIsOpen == base_is_open

\* ChildDataset.open -> ParentDataset._on_child_opened(child)
ChildOpen(child) ==
    /\ base_opens < MaxBaseCalls
    /\ IF AlreadyRegistered(child)
       THEN /\ Called("child_open", child, "KeyError", 0, {})
            /\ UNCHANGED <<open_children, base_is_open, base_opens>>
       ELSE /\ open_children' = open_children \cup {child}
            /\ IF ~ParentIsOpen
               THEN /\ Called("child_open", child, "returned", 0,
                              {"base_open"})
                    /\ base_is_open' = TRUE
                    /\ base_opens' = base_opens + 1
               ELSE /\ Called("child_open", child, "returned", 0, {})
                    /\ UNCHANGED <<base_is_open, base_opens>>
    /\ UNCHANGED <<base_open0, base_closes>>
    /\ UNCHANGED outsideTree

\* ChildDataset.close -> ParentDataset._on_child_closed(child)
ChildClose(child) ==
    /\ base_closes < MaxBaseCalls
    /\ IF child \notin open_children
       THEN /\ Called("child_close", child, "KeyError", 0, {})
            /\ UNCHANGED <<open_children, base_is_open, base_closes>>
       ELSE /\ open_children' = open_children \ {child}
            /\ IF LastChildClosed(open_children \ {child})
               THEN /\ Called("child_close", child, "returned", 0,
                              {"base_close"})
                    /\ base_is_open' = FALSE
                    /\ base_closes' = base_closes + 1
               ELSE /\ Called("child_close", child, "returned", 0, {})
                    /\ UNCHANGED <<base_is_open, base_closes>>
    /\ UNCHANGED <<base_open0, base_opens>>
    /\ UNCHANGED outsideTree

\* The base may already be open when the parent is built around it.
TreeInit ==
    /\ open_children = {}
    /\ base_is_open \in BOOLEAN /\ base_open0 = base_is_open
    /\ base_opens = 0 /\ base_closes = 0
    /\ src = EmptyDict /\ dst = EmptyDict /\ dst_before = EmptyDict
    /\ PairIdle /\ SubIdle /\ CallIdle
    /\ ViewIdle /\ ZipIdle /\ StoreIdle

TreeNext ==
    \/ \E c \in Children : ChildOpen(c)
    \/ \E c \in Children : ChildClose(c)

SpecTree == TreeInit /\ [][TreeNext]_vars

\* C6: over a base that starts closed, the base's open is called in exactly
\* the steps that take the set of registered children from empty to
\* non-empty, its close in exactly the steps that take it from non-empty to
\* empty; the base is open exactly while some child is registered, and it
\* has then been opened exactly once more than it has been closed.
C6_PhysicalOpenCloseOnEdges ==
    [][base_open0 = FALSE =>
        /\ "base_open" \in ev' <=>
              (open_children = {} /\ open_children' # {})
        /\ "base_close" \in ev' <=>
              (open_children # {} /\ open_children' = {})
        /\ base_is_open' <=> (open_children' # {})
        /\ base_opens' - base_closes' = IF open_children' = {} THEN 0 ELSE 1
    ]_vars

\* a second child has opened without a physical open
C6_Witness ==
    /\ base_open0 = FALSE /\ op = "child_open" /\ ret = "returned"
    /\ Cardinality(open_children) >= 2 /\ ev = {} /\ base_is_open
    /\ base_opens = 1 /\ base_closes = 0

\* C7: opening a registered child and closing an unregistered child fail
\* with an error; the failing call changes neither the set of registered
\* children nor the base's open state and calls neither open nor close of
\* the base.
C7_InvalidChildStateRejected ==
    [][/\ (op' = "child_open" /\ arg' \in open_children) =>
             ret' = "KeyError"
       /\ (op' = "child_close" /\ arg' \notin open_children) =>
             ret' = "KeyError"
       /\ (op' \in {"child_open", "child_close"} /\ ret' = "KeyError") =>
             /\ open_children' = open_children
             /\ base_is_open' = base_is_open /\ ev' = {}
    ]_vars

\* a child that is already registered was opened again and refused, while
\* the base stays open for it
C7_Witness ==
    /\ op = "child_open" /\ ret = "KeyError" /\ arg \in open_children
    /\ prev_op = "child_open" /\ base_is_open

(***************************************************************************)
(* Key subsets: DataSubset (core.py) and SavingDataSubset (save.py) over   *)
(* one base dataset, `store`.  One subset object is followed at a time: a  *)
(* successful construction replaces it, a failed one leaves it.            *)
(***************************************************************************)

\* DataSubset._check_keys: some key of the subset is missing from the base
\* (`raise KeyError('key %s not present in base')`)
NoKeyCheck(keys, check) == FALSE
CheckKeysFails(keys, check) ==
    check /\ \E k \in keys : k \notin DOMAIN store

\* DataSubset.__init__ (through SavingDataSubset.__init__ for the saving
\* class): `self._check_present = True` whatever the argument, and the keys
\* are checked at once only `if self.is_open`.
MakeSubset(kind, keys, check_present) ==
    /\ IF store_open /\ CheckKeysFails(keys, TRUE)
       THEN /\ CalledWith("subset", 0, "KeyError", <<>>, keys, check_present,
                          {})
            /\ UNCHANGED <<sub_kind, sub_keys, sub_check, sub_req>>
       ELSE /\ CalledWith("subset", 0, "returned", <<>>, keys, check_present,
                          {})
            /\ sub_kind' = kind /\ sub_keys' = keys /\ sub_check' = TRUE
            /\ sub_req' = check_present
    /\ UNCHANGED <<store, store_open>>
    /\ UNCHANGED outsideSub

\* DataSubset.open: `super(DataSubset, self).open(); self._check_keys()`
SubOpen ==
    /\ sub_kind # "none"
    /\ store_open' = TRUE
    /\ IF CheckKeysFails(sub_keys, sub_check)
       THEN Called("sub_open", 0, "KeyError", 0, {"base_open"})
       ELSE Called("sub_open", 0, "returned", 0, {"base_open"})
    /\ UNCHANGED <<store, sub_kind, sub_keys, sub_check, sub_req>>
    /\ UNCHANGED outsideSub

\* DelegatingDataset.close, inherited by the subsets
SubClose ==
    /\ sub_kind # "none"
    /\ store_open' = FALSE
    /\ Called("sub_close", 0, "returned", 0, {"base_close"})
    /\ UNCHANGED <<store, sub_kind, sub_keys, sub_check, sub_req>>
    /\ UNCHANGED outsideSub

\* the base's own delete_item (`del self._base[key]`): KeyError when absent
StoreDelete(name, key) ==
    IF key \in DOMAIN store
    THEN /\ Called(name, key, "returned", 0, {"delete_item"})
         /\ store' = Remove(store, key)
    ELSE /\ Called(name, key, "KeyError", 0, {"delete_item"})
         /\ store' = store

\* DataSubset.save_item on an open base
DataSubsetSaveItem(key, value) ==
    /\ sub_kind = "DataSubset" /\ store_open
    /\ IF key \in sub_keys
       THEN /\ Called("sub_save_item", key, "returned", value, {"save_item"})
            /\ store' = Put(store, key, value)
       ELSE /\ Called("sub_save_item", key, "invalid_key", value, {})
            /\ store' = store
    /\ UNCHANGED <<store_open, sub_kind, sub_keys, sub_check, sub_req>>
    /\ UNCHANGED outsideSub

\* DataSubset.delete_item on an open base
DataSubsetDeleteItem(key) ==
    /\ sub_kind = "DataSubset" /\ store_open
    /\ IF key \in sub_keys
       THEN StoreDelete("sub_delete_item", key)
       ELSE /\ Called("sub_delete_item", key, "invalid_key", 0, {})
            /\ store' = store
    /\ UNCHANGED <<store_open, sub_kind, sub_keys, sub_check, sub_req>>
    /\ UNCHANGED outsideSub

\* SavingDataSubset.save_item on an open base: it comes before
\* DataSubset.save_item in the class's method resolution order
SavingDataSubsetSaveItem(key, value) ==
    /\ sub_kind = "SavingDataSubset" /\ store_open
    /\ Called("sub_save_item", key, "returned", value, {"save_item"})
    /\ store' = Put(store, key, value)
    /\ UNCHANGED <<store_open, sub_kind, sub_keys, sub_check, sub_req>>
    /\ UNCHANGED outsideSub

\* SavingDataSubset.delete_item on an open base
SavingDataSubsetDeleteItem(key) ==
    /\ sub_kind = "SavingDataSubset" /\ store_open
    /\ StoreDelete("sub_delete_item", key)
    /\ UNCHANGED <<store_open, sub_kind, sub_keys, sub_check, sub_req>>
    /\ UNCHANGED outsideSub

\* DataSubset.__getitem__: `if key not in self._keys`
AnyKey(key) == TRUE
InSubset(key) == key \in sub_keys

\* DataSubset.__getitem__ on an open base: "invalid key" outside the
\* subset's keys, else the base's read (KeyError when the base lacks it)
SubGet(key) ==
    /\ sub_kind # "none" /\ store_open
    /\ IF ~InSubset(key)
       THEN Called("sub_get", key, "invalid_key", 0, {})
       ELSE IF key \notin DOMAIN store
       THEN Called("sub_get", key, "KeyError", 0, {"base_read"})
       ELSE Called("sub_get", key, "returned", store[key], {"base_read"})
    /\ UNCHANGED subVars
    /\ UNCHANGED outsideSub

\* DataSubset.keys: `return self._keys`
SubKeys ==
    /\ sub_kind # "none"
    /\ CalledWith("sub_keys", 0, "returned", <<>>, sub_keys, FALSE, {})
    /\ UNCHANGED subVars
    /\ UNCHANGED outsideSub

\* DataSubset.subset -> _with_new_keys (SavingDataSubset._with_new_keys for
\* the saving class): the new keys are checked against this subset's keys
\* only `if check_present`; the new subset is built over the same base with
\* `check_present and not self.is_open`, and its constructor checks the
\* keys against the base when the base is open.
Resubset(keys, check_present) ==
    /\ sub_kind # "none"
    /\ IF check_present /\ \E k \in keys : k \notin sub_keys
       THEN /\ CalledWith("resubset", 0, "KeyError", <<>>, keys,
                          check_present, {})
            /\ UNCHANGED <<sub_keys, sub_check, sub_req>>
       ELSE IF store_open /\ CheckKeysFails(keys, TRUE)
       THEN /\ CalledWith("resubset", 0, "KeyError", <<>>, keys,
                          check_present, {})
            /\ UNCHANGED <<sub_keys, sub_check, sub_req>>
       ELSE /\ CalledWith("resubset", 0, "returned", <<>>, keys,
                          check_present, {})
            /\ sub_keys' = keys /\ sub_check' = TRUE
            /\ sub_req' = (check_present /\ ~store_open)
    /\ UNCHANGED <<store, store_open, sub_kind>>
    /\ UNCHANGED outsideSub

SubInit ==
    /\ store \in Dicts /\ store_open \in BOOLEAN
    /\ sub_kind = "none" /\ sub_keys = {} /\ sub_check = TRUE
    /\ sub_req = TRUE
    /\ src = EmptyDict /\ dst = EmptyDict /\ dst_before = EmptyDict
    /\ PairIdle /\ TreeIdle /\ CallIdle
    /\ ViewIdle /\ ZipIdle /\ StoreIdle

SubNext ==
    \/ \E kind \in {"DataSubset", "SavingDataSubset"}, K \in SUBSET Keys,
          c \in BOOLEAN : MakeSubset(kind, K, c)
    \/ SubOpen
    \/ SubClose
    \/ \E k \in Keys, v \in Values : DataSubsetSaveItem(k, v)
    \/ \E k \in Keys : DataSubsetDeleteItem(k)
    \/ \E k \in Keys, v \in Values : SavingDataSubsetSaveItem(k, v)
    \/ \E k \in Keys : SavingDataSubsetDeleteItem(k)
    \/ \E k \in Keys : SubGet(k)
    \/ SubKeys
    \/ \E K \in SUBSET Keys, c \in BOOLEAN : Resubset(K, c)

SpecSubset == SubInit /\ [][SubNext]_vars

\* C10: through a subset made by SavingDataset.subset(K), save_item and
\* delete_item with a key in K are forwarded to the base; with a key outside
\* K they fail with "invalid key" and leave the base unchanged, so no base
\* key outside K ever changes through the subset.
C10_SavingSubsetWritesStayInside ==
    [][(sub_kind = "SavingDataSubset"
          /\ op' \in {"sub_save_item", "sub_delete_item"}) =>
        /\ (arg' \in sub_keys /\ op' = "sub_save_item") =>
              store' = Put(store, arg', out')
        /\ (arg' \in sub_keys /\ op' = "sub_delete_item"
              /\ arg' \in DOMAIN store) => store' = Remove(store, arg')
        /\ arg' \notin sub_keys => (ret' = "invalid_key" /\ store' = store)
        /\ \A k \in Keys \ sub_keys :
              /\ k \in DOMAIN store <=> k \in DOMAIN store'
              /\ k \in DOMAIN store => store'[k] = store[k]
    ]_vars

\* C11: the subset constructed from K has exactly the keys K and keys()
\* returns them; get(k) for k in K returns the base's value of k; get(k)
\* for k outside K fails with "invalid key", also when k is a key of the
\* base.
C11_SubsetKeysAndGet ==
    [][/\ (op' = "subset" /\ ret' = "returned") => sub_keys' = kset'
       /\ op' = "sub_keys" => (ret' = "returned" /\ kset' = sub_keys)
       /\ (op' = "sub_get" /\ arg' \in sub_keys /\ arg' \in DOMAIN store) =>
             (ret' = "returned" /\ out' = store[arg'])
       /\ (op' = "sub_get" /\ arg' \notin sub_keys) =>
             (ret' = "invalid_key" /\ "base_read" \notin ev')
    ]_vars

\* a key of the base that is outside the subset was refused
C11_Witness ==
    /\ op = "sub_get" /\ ret = "invalid_key"
    /\ arg \in DOMAIN store /\ arg \notin sub_keys /\ sub_keys # {}
    /\ sub_keys \subseteq DOMAIN store

\* C12: with check_present requested, constructing a subset with a key the
\* base lacks fails with KeyError ("not present in base") when the base is
\* open; when the base is not open the construction succeeds without any
\* check and leaves the base closed, and the subset's open() then opens the
\* base and fails with the same KeyError.
C12_EagerOrDeferredCheck ==
    [][/\ (op' = "subset" /\ flag' /\ store_open
             /\ ~(kset' \subseteq DOMAIN store)) =>
            /\ ret' = "KeyError"
            /\ UNCHANGED <<sub_kind, sub_keys, store, store_open>>
       /\ (op' = "subset" /\ ~store_open) =>
            (ret' = "returned" /\ sub_keys' = kset' /\ ~store_open')
       /\ (op' = "sub_open" /\ sub_req /\ ~(sub_keys \subseteq DOMAIN store))
            => (ret' = "KeyError" /\ store_open' /\ "base_open" \in ev')
    ]_vars

\* a subset built over the closed base with a missing key has failed in
\* its open(), with the base now open
C12_Witness ==
    /\ op = "sub_open" /\ prev_op = "subset" /\ ret = "KeyError"
    /\ sub_req /\ store_open /\ ~(sub_keys \subseteq DOMAIN store)

\* C19: re-subsetting a subset with keys K1, whatever the arguments, either
\* fails with a key error or yields a subset whose keys lie within K1.
C19_ResubsetStaysWithin ==
    [][op' = "resubset" =>
          \/ ret' = "KeyError"
          \/ ret' = "returned" /\ sub_keys' = kset'
                /\ sub_keys' \subseteq sub_keys
    ]_vars

(***************************************************************************)
(* Combined datasets: CompoundDataset and ZippedDataset (core.py) over the *)
(* datasets kids[1] .. kids[NumDatasets]                                   *)
(***************************************************************************)

\* sets.entire_set: the set that every key belongs to
EntireSet == Keys

\* key_intersection: `s = sets.entire_set; for keys in keys_iterable:
\* s = s.intersection(keys)`
RECURSIVE IntersectFrom(_, _, _)
IntersectFrom(s, keysets, i) ==
    IF i > Len(keysets) THEN s
    ELSE IntersectFrom(s \cap keysets[i], keysets, i + 1)
KeyIntersection(keysets) == IntersectFrom(EntireSet, keysets, 1)

\* `d.keys() for d in self.datasets`
ChildKeys == [i \in Positions |-> DOMAIN kids[i]]

\* CompoundDataset.keys, inherited by ZippedDataset.  CompoundDataset's
\* constructor never assigns self._keys (ZippedDataset's sets it to None),
\* so on a CompoundDataset the test `self._keys is None` raises
\* AttributeError.
ZKeys ==
    /\ IF zcache = "unset"
       THEN /\ Called("z_keys", 0, "AttributeError", 0, {})
            /\ UNCHANGED <<zcache, zkeys>>
       ELSE IF zcache = "None"
       THEN /\ CalledWith("z_keys", 0, "returned", <<>>,
                          KeyIntersection(ChildKeys), FALSE, {})
            /\ zcache' = "set" /\ zkeys' = KeyIntersection(ChildKeys)
       ELSE /\ CalledWith("z_keys", 0, "returned", <<>>, zkeys, FALSE, {})
            /\ UNCHANGED <<zcache, zkeys>>
    /\ UNCHANGED <<zkind, kids, kids_open>>
    /\ UNCHANGED outsideZip

\* CompoundDataset.__getitem__ (a dict by name) / ZippedDataset.__getitem__
\* (a tuple by position): one value per dataset, KeyError from the first
\* dataset that lacks the key
ZGet(key) ==
    /\ IF \E i \in Positions : key \notin DOMAIN kids[i]
       THEN Called("z_get", key, "KeyError", 0, {})
       ELSE CalledWith("z_get", key, "returned",
                       [i \in Positions |-> kids[i][key]], {}, FALSE, {})
    /\ UNCHANGED zipVars
    /\ UNCHANGED outsideZip

\* CompoundDataset.open: `for v in self.datasets: v.open()`.  failAt: the
\* position whose open raises (0: none).
ZOpen(failAt) ==
    /\ kids_open' = [i \in Positions |->
                       IF failAt = 0 \/ i < failAt THEN TRUE
                       ELSE kids_open[i]]
    /\ Called("z_open", failAt, IF failAt = 0 THEN "returned"
                                ELSE "child_error", 0, {})
    /\ UNCHANGED <<zkind, kids, zcache, zkeys>>
    /\ UNCHANGED outsideZip

\* CompoundDataset.close: `for v in self.datasets: v.close()`
ZClose(failAt) ==
    /\ kids_open' = [i \in Positions |->
                       IF failAt = 0 \/ i < failAt THEN FALSE
                       ELSE kids_open[i]]
    /\ Called("z_close", failAt, IF failAt = 0 THEN "returned"
                                 ELSE "child_error", 0, {})
    /\ UNCHANGED <<zkind, kids, zcache, zkeys>>
    /\ UNCHANGED outsideZip

\* CompoundDataset.save_item / ZippedDataset.save_item: one sub-value per
\* dataset, written with that dataset's save_item
ZSaveItem(key, values) ==
    /\ kids' = [i \in Positions |-> Put(kids[i], key, values[i])]
    /\ CalledWith("z_save_item", key, "returned", values, {}, FALSE,
                  {"save_item"})
    /\ UNCHANGED <<zkind, kids_open, zcache, zkeys>>
    /\ UNCHANGED outsideZip

\* CompoundDataset.delete_item: `for dataset in self.datasets:
\* dataset.delete_item(key)`; the first dataset without the key raises
\* KeyError, after the ones before it have deleted theirs
ZDeleteItem(key) ==
    /\ LET missing == {i \in Positions : key \notin DOMAIN kids[i]}
           stop == IF missing = {} THEN NumDatasets + 1
                   ELSE CHOOSE i \in missing : \A j \in missing : i <= j
       IN  /\ kids' = [i \in Positions |->
                         IF i < stop THEN Remove(kids[i], key) ELSE kids[i]]
           /\ Called("z_delete_item", key,
                     IF missing = {} THEN "returned" ELSE "KeyError", 0,
                     {"delete_item"})
    /\ UNCHANGED <<zkind, kids_open, zcache, zkeys>>
    /\ UNCHANGED outsideZip

ZipInit ==
    /\ zkind \in {"compound", "zipped"}
    /\ kids \in [Positions -> Dicts]
    /\ kids_open = [i \in Positions |-> FALSE]
    /\ zcache = (IF zkind = "compound" THEN "unset" ELSE "None")
    /\ zkeys = {}
    /\ src = EmptyDict /\ dst = EmptyDict /\ dst_before = EmptyDict
    /\ PairIdle /\ TreeIdle /\ SubIdle /\ CallIdle
    /\ ViewIdle /\ StoreIdle

ZipNext ==
    \/ ZKeys
    \/ \E k \in Keys : ZGet(k)
    \/ \E f \in 0..NumDatasets : ZOpen(f)
    \/ \E f \in 0..NumDatasets : ZClose(f)
    \/ \E k \in Keys, vs \in [Positions -> Values] : ZSaveItem(k, vs)
    \/ \E k \in Keys : ZDeleteItem(k)

SpecZip == ZipInit /\ [][ZipNext]_vars

\* C13: the keys of a ZippedDataset are the keys of its first dataset,
\* whatever the keys of the others, and get(k) returns the tuple of the
\* datasets' values of k in order.
C13_ZipKeysAreFirstDatasets ==
    [][zkind = "zipped" =>
        /\ op' = "z_keys" =>
              (ret' = "returned" /\ kset' = DOMAIN kids[1])
        /\ (op' = "z_get" /\ ret' = "returned") =>
              outs' = [i \in Positions |-> kids[i][arg']]
    ]_vars

\* C14: keys() of a CompoundDataset returns the intersection of its
\* datasets' key sets, and get(k) returns one value per dataset.
C14_CompoundKeysAreIntersection ==
    [][zkind = "compound" =>
        /\ op' = "z_keys" =>
              /\ ret' = "returned"
              /\ kset' = {k \in Keys : \A i \in Positions :
                                          k \in DOMAIN kids[i]}
        /\ (op' = "z_get" /\ \A i \in Positions : arg' \in DOMAIN kids[i]) =>
              /\ ret' = "returned"
              /\ outs' = [i \in Positions |-> kids[i][arg']]
    ]_vars

\* C15: a keys() that follows close() and open() of the combined dataset
\* returns the intersection of the datasets' current key sets.
C15_KeysFreshAfterReopen ==
    [][(prev_op = "z_close" /\ op = "z_open" /\ ret = "returned"
          /\ op' = "z_keys" /\ ret' = "returned") =>
         kset' = {k \in Keys : \A i \in Positions : k \in DOMAIN kids[i]}
    ]_vars

(***************************************************************************)
(* The subset of a cache-through pair: AutoSavingDataset.subset (save.py)  *)
(***************************************************************************)

\* AutoSavingDataset.subset: `src = self.src.subset(keys, check_present);
\* dst = self.dst`.  The source's subset is a DataSubset, whose constructor
\* checks the keys against the source when the source is open.
MakeView(keys, check_present) ==
    /\ pc = "idle"
    /\ IF src_open /\ \E k \in keys : k \notin DOMAIN src
       THEN /\ CalledWith("view", 0, "KeyError", <<>>, keys, check_present,
                          {})
            /\ UNCHANGED viewVars
       ELSE /\ CalledWith("view", 0, "returned", <<>>, keys, check_present,
                          {})
            /\ view_made' = TRUE /\ view_keys' = keys
    /\ UNCHANGED pairVars
    /\ UNCHANGED outsideView

\* `key in dst` on the subset pair's destination, which is `self.dst`
\* itself (the narrowed `self.dst.subset(keys, False)` is commented out)
ViewDstHasNarrowed(key) == key \in view_keys /\ key \in DOMAIN dst
ViewDstHas(key) == key \in DOMAIN dst

\* AutoSavingDataset.__getitem__ of the subset pair, on open datasets: a
\* miss reads the source's subset (DataSubset.__getitem__: "invalid key"
\* outside its keys) and saves into the destination
ViewGet(key, srcOk, saveOk) ==
    /\ pc = "idle" /\ view_made /\ src_open /\ dst_open
    /\ dst_before' = dst
    /\ IF ViewDstHas(key)
       THEN /\ Called("view_get", key, "returned", dst[key], {})
            /\ dst' = dst
       ELSE IF key \notin view_keys
       THEN /\ Called("view_get", key, "invalid_key", 0, {})
            /\ dst' = dst
       ELSE IF ~(srcOk /\ key \in DOMAIN src)
       THEN /\ Called("view_get", key, "src_error", 0, {"src_read"})
            /\ dst' = dst
       ELSE IF ~saveOk
       THEN /\ Called("view_get", key, "dst_error", 0,
                      {"src_read", "save_item"})
            /\ dst' = dst
       ELSE /\ Called("view_get", key, "returned", src[key],
                      {"src_read", "save_item"})
            /\ dst' = Put(dst, key, src[key])
    /\ UNCHANGED <<src, src_open, dst_open, pc, todo, cur, val, overwrite,
                   show_progress>>
    /\ UNCHANGED viewVars
    /\ UNCHANGED outsideView

\* a read through the subset pair's `dst` property, on an open destination
ViewDstGet(key) ==
    /\ pc = "idle" /\ view_made /\ dst_open
    /\ dst_before' = dst
    /\ IF ViewDstHas(key)
       THEN Called("view_dst_get", key, "returned", dst[key], {})
       ELSE Called("view_dst_get", key, "KeyError", 0, {})
    /\ UNCHANGED <<src, dst, src_open, dst_open, pc, todo, cur, val,
                   overwrite, show_progress>>
    /\ UNCHANGED viewVars
    /\ UNCHANGED outsideView

\* a save_item through the subset pair's `dst` property
ViewDstSaveItem(key, value) ==
    /\ pc = "idle" /\ view_made /\ dst_open
    /\ dst_before' = dst
    /\ Called("view_dst_save_item", key, "returned", value, {"save_item"})
    /\ dst' = Put(dst, key, value)
    /\ UNCHANGED <<src, src_open, dst_open, pc, todo, cur, val, overwrite,
                   show_progress>>
    /\ UNCHANGED viewVars
    /\ UNCHANGED outsideView

ViewInit == PairInit

ViewNext ==
    \/ \E a, b \in BOOLEAN : Open(a, b)
    \/ \E a, b \in BOOLEAN : Close(a, b)
    \/ \E k \in Keys, a, b \in BOOLEAN : Get(k, a, b)
    \/ \E K \in SUBSET Keys, c \in BOOLEAN : MakeView(K, c)
    \/ \E k \in Keys, a, b \in BOOLEAN : ViewGet(k, a, b)
    \/ \E k \in Keys : ViewDstGet(k)
    \/ \E k \in Keys, v \in Values : ViewDstSaveItem(k, v)

SpecView == ViewInit /\ [][ViewNext]_vars

\* C16: a miss served through the subset pair is for a key of the subset's
\* source, returns the source's value and writes it into the destination of
\* the original pair, so that a get of that key through the original pair
\* right after it is a hit without a source read; through the subset pair's
\* destination every key of the destination is readable and every key is
\* writable, inside the subset's keys or not.
C16_SubsetSharesDestination ==
    [][/\ (op' = "view_get" /\ ret' = "returned"
             /\ arg' \notin DOMAIN dst) =>
            /\ arg' \in view_keys /\ out' = src[arg']
            /\ dst' = Put(dst, arg', src[arg'])
       /\ (op = "view_get" /\ ret = "returned" /\ op' = "get"
             /\ arg' = arg) =>
            (ret' = "returned" /\ out' = out /\ "src_read" \notin ev')
       /\ (op' = "view_dst_get" /\ arg' \in DOMAIN dst) =>
            (ret' = "returned" /\ out' = dst[arg'])
       /\ op' = "view_dst_save_item" =>
            (ret' = "returned" /\ dst' = Put(dst, arg', out'))
    ]_vars

\* a miss through the subset pair has filled the shared destination, which
\* also holds a key outside the subset
C16_Witness ==
    /\ op = "view_get" /\ ret = "returned" /\ "src_read" \in ev
    /\ arg \in view_keys /\ arg \notin DOMAIN dst_before
    /\ dst = Put(dst_before, arg, src[arg])
    /\ \E k \in DOMAIN dst : k \notin view_keys

(***************************************************************************)
(* AutoSavingManager.save_all (save.py): `with self.get_auto_saving_       *)
(* dataset('a') as ds: ds.save_all(overwrite=overwrite, message=...)` on a *)
(* pair it has just made.  Dataset.__enter__ is open(), __exit__ is        *)
(* close(); an exception raised by __enter__ skips the body and __exit__.  *)
(***************************************************************************)

\* Dataset.__enter__ of the new pair
ManagerEnter(srcOk, dstOk) ==
    /\ op = "init"
    /\ Open(srcOk, dstOk)

\* the body of the with statement: ds.save_all with show_progress left at
\* its default
ManagerFill(ow, msg) ==
    /\ op = "open" /\ ret = "returned"
    /\ SaveAll(ow, TRUE, msg)

\* Dataset.__exit__, run when the body has returned or raised
ManagerExit(dstOk, srcOk) ==
    /\ op = "save_all" /\ pc = "idle"
    /\ Close(dstOk, srcOk)

\* save_all of the manager has returned or raised
ManagerDone ==
    \/ op = "open" /\ ret # "returned"
    \/ op = "close"

ManagerInit == PairInit

ManagerNext ==
    \/ \E a, b \in BOOLEAN : ManagerEnter(a, b)
    \/ \E ow, msg \in BOOLEAN : ManagerFill(ow, msg)
    \/ \E k \in Keys : LoopDelete(k)
    \/ \E a \in BOOLEAN : LoopRead(a)
    \/ \E a \in BOOLEAN : LoopSave(a)
    \/ LoopFinish
    \/ \E a, b \in BOOLEAN : ManagerExit(a, b)

SpecManager == ManagerInit /\ [][ManagerNext]_vars

\* C17: when save_all of the manager has returned or raised, whether the
\* fill or the opening failed, neither the source nor the destination of
\* the pair it made is open (a close that itself raises is left aside).
C17_ManagerLeavesNothingOpen ==
    (ManagerDone /\ (op = "open" \/ ret = "returned")) =>
        (~src_open /\ ~dst_open)

(***************************************************************************)
(* Stores: JsonDataset (json_dataset.py), Hdf5Dataset (hdf5.py) and        *)
(* ZipFileDataset (zip_file_dataset.py) over one file.  A JsonDataset      *)
(* loads the file into a dict on open and dumps the dict on close; the     *)
(* other two hold a handle on the file and read and write it in place.     *)
(* json.dump followed by json.load gives back a dict of JSON values as it  *)
(* was and turns None into the document `null` and back.                   *)
(***************************************************************************)

\* is_open: `self._base is not None` / `self._file is not None`
StoreIsOpen == mem_state # "None"

\* JsonDataset.is_writable
AlwaysWritable == TRUE
IsWritable == st_mode \in {"a", "w"}

\* the frame of a store call that changes nothing
StoreSame == UNCHANGED <<file_state, file_data, mem_state, mem_data>>

\* JsonDataset.open
JsonOpen ==
    /\ st_kind = "json"
    /\ IF st_mode = "r" /\ file_state = "absent"
       THEN Called("store_open", 0, "IOError", 0, {}) /\ StoreSame
       ELSE /\ Called("store_open", 0, "returned", 0, {})
            /\ UNCHANGED <<file_state, file_data>>
            /\ IF st_mode \in {"r", "a"} /\ file_state = "dict"
               THEN mem_state' = "dict" /\ mem_data' = file_data
               ELSE IF st_mode \in {"r", "a"} /\ file_state = "null"
               THEN mem_state' = "None" /\ mem_data' = EmptyDict
               ELSE mem_state' = "dict" /\ mem_data' = EmptyDict
    /\ UNCHANGED <<st_kind, st_mode>>
    /\ UNCHANGED outsideStore

\* JsonDataset.close: `if self.is_writable(): ... json.dump(self._base, fp)`
\* then `self._base = None`
JsonClose ==
    /\ st_kind = "json"
    /\ Called("store_close", 0, "returned", 0, {})
    /\ IF IsWritable
       THEN IF mem_state = "dict"
            THEN file_state' = "dict" /\ file_data' = mem_data
            ELSE file_state' = "null" /\ file_data' = EmptyDict
       ELSE UNCHANGED <<file_state, file_data>>
    /\ mem_state' = "None" /\ mem_data' = EmptyDict
    /\ UNCHANGED <<st_kind, st_mode>>
    /\ UNCHANGED outsideStore

\* JsonDataset.save_item: `self._base[key] = value` (TypeError on None)
JsonSaveItem(key, value) ==
    /\ st_kind = "json"
    /\ IF ~IsWritable
       THEN Called("store_save_item", key, "not_writable", value, {})
            /\ StoreSame
       ELSE IF mem_state # "dict"
       THEN Called("store_save_item", key, "TypeError", value, {})
            /\ StoreSame
       ELSE /\ Called("store_save_item", key, "returned", value, {})
            /\ mem_data' = Put(mem_data, key, value)
            /\ UNCHANGED <<file_state, file_data, mem_state>>
    /\ UNCHANGED <<st_kind, st_mode>>
    /\ UNCHANGED outsideStore

\* JsonDataset.delete_item: `del self._base[key]`
JsonDeleteItem(key) ==
    /\ st_kind = "json"
    /\ IF ~IsWritable
       THEN Called("store_delete_item", key, "not_writable", 0, {})
            /\ StoreSame
       ELSE IF mem_state # "dict"
       THEN Called("store_delete_item", key, "TypeError", 0, {})
            /\ StoreSame
       ELSE IF key \notin DOMAIN mem_data
       THEN Called("store_delete_item", key, "KeyError", 0, {})
            /\ StoreSame
       ELSE /\ Called("store_delete_item", key, "returned", 0, {})
            /\ mem_data' = Remove(mem_data, key)
            /\ UNCHANGED <<file_state, file_data, mem_state>>
    /\ UNCHANGED <<st_kind, st_mode>>
    /\ UNCHANGED outsideStore

\* h5py.File(path, mode) / zipfile.ZipFile(path, mode): "a" creates a
\* missing file, "w" creates or empties it, "r" leaves it
HandleOpened ==
    /\ mem_state' = "handle" /\ mem_data' = mem_data
    /\ IF st_mode = "w" \/ file_state = "absent"
       THEN file_state' = "dict" /\ file_data' = EmptyDict
       ELSE UNCHANGED <<file_state, file_data>>

\* Hdf5Dataset.open
Hdf5Open ==
    /\ st_kind = "hdf5"
    /\ IF mem_state # "None"
       THEN Called("store_open", 0, "IOError", 0, {}) /\ StoreSame
       ELSE IF st_mode = "r" /\ file_state = "absent"
       THEN Called("store_open", 0, "IOError", 0, {}) /\ StoreSame
       ELSE Called("store_open", 0, "returned", 0, {}) /\ HandleOpened
    /\ UNCHANGED <<st_kind, st_mode>>
    /\ UNCHANGED outsideStore

\* Hdf5Dataset.close
Hdf5Close ==
    /\ st_kind = "hdf5"
    /\ Called("store_close", 0, "returned", 0, {})
    /\ mem_state' = "None"
    /\ UNCHANGED <<file_state, file_data, mem_data>>
    /\ UNCHANGED <<st_kind, st_mode>>
    /\ UNCHANGED outsideStore

\* Hdf5Dataset.save_item -> _save_item -> group.create_dataset: there is no
\* is_writable test; h5py refuses to write through a file opened with "r"
\* and to create a name that exists
Hdf5SaveItem(key, value) ==
    /\ st_kind = "hdf5"
    /\ IF mem_state = "None"
       THEN Called("store_save_item", key, "AttributeError", value, {})
            /\ StoreSame
       ELSE IF st_mode = "r"
       THEN Called("store_save_item", key, "not_writable", value, {})
            /\ StoreSame
       ELSE IF key \in DOMAIN file_data
       THEN Called("store_save_item", key, "ValueError", value, {})
            /\ StoreSame
       ELSE /\ Called("store_save_item", key, "returned", value, {})
            /\ file_data' = Put(file_data, key, value)
            /\ UNCHANGED <<file_state, mem_state, mem_data>>
    /\ UNCHANGED <<st_kind, st_mode>>
    /\ UNCHANGED outsideStore

\* Hdf5Dataset.delete_item: `del self._base[key]`
Hdf5DeleteItem(key) ==
    /\ st_kind = "hdf5"
    /\ IF mem_state = "None"
       THEN Called("store_delete_item", key, "TypeError", 0, {})
            /\ StoreSame
       ELSE IF st_mode = "r"
       THEN Called("store_delete_item", key, "not_writable", 0, {})
            /\ StoreSame
       ELSE IF key \notin DOMAIN file_data
       THEN Called("store_delete_item", key, "KeyError", 0, {})
            /\ StoreSame
       ELSE /\ Called("store_delete_item", key, "returned", 0, {})
            /\ file_data' = Remove(file_data, key)
            /\ UNCHANGED <<file_state, mem_state, mem_data>>
    /\ UNCHANGED <<st_kind, st_mode>>
    /\ UNCHANGED outsideStore

\* ZipFileDataset.open: `if self._file is None: self._file = ZipFile(...)`
ZipOpen ==
    /\ st_kind = "zip"
    /\ IF mem_state # "None"
       THEN Called("store_open", 0, "returned", 0, {}) /\ StoreSame
       ELSE IF st_mode = "r" /\ file_state = "absent"
       THEN Called("store_open", 0, "IOError", 0, {}) /\ StoreSame
       ELSE Called("store_open", 0, "returned", 0, {}) /\ HandleOpened
    /\ UNCHANGED <<st_kind, st_mode>>
    /\ UNCHANGED outsideStore

\* ZipFileDataset.close
ZipClose ==
    /\ st_kind = "zip"
    /\ Called("store_close", 0, "returned", 0, {})
    /\ mem_state' = "None"
    /\ UNCHANGED <<file_state, file_data, mem_data>>
    /\ UNCHANGED <<st_kind, st_mode>>
    /\ UNCHANGED outsideStore

StoreInit ==
    /\ st_kind \in {"json", "hdf5", "zip"}
    /\ st_mode \in {"r", "a", "w"}
    /\ file_state \in {"absent", "dict"}
    /\ file_data \in Dicts
    /\ file_state = "absent" => file_data = EmptyDict
    /\ mem_state = "None" /\ mem_data = EmptyDict
    /\ src = EmptyDict /\ dst = EmptyDict /\ dst_before = EmptyDict
    /\ PairIdle /\ TreeIdle /\ SubIdle /\ CallIdle
    /\ ViewIdle /\ ZipIdle

StoreNext ==
    \/ JsonOpen
    \/ JsonClose
    \/ \E k \in Keys, v \in Values : JsonSaveItem(k, v)
    \/ \E k \in Keys : JsonDeleteItem(k)
    \/ Hdf5Open
    \/ Hdf5Close
    \/ \E k \in Keys, v \in Values : Hdf5SaveItem(k, v)
    \/ \E k \in Keys : Hdf5DeleteItem(k)
    \/ ZipOpen
    \/ ZipClose

SpecStore == StoreInit /\ [][StoreNext]_vars

\* C18: open() on a store that is open and close() on a store that is not
\* open return without error and leave the store's loaded contents, its
\* open state and the file as they are.
C18_OpenCloseIdempotent ==
    [][/\ (op' = "store_open" /\ StoreIsOpen) =>
            (ret' = "returned" /\ UNCHANGED storeVars)
       /\ (op' = "store_close" /\ ~StoreIsOpen) =>
            (ret' = "returned" /\ UNCHANGED storeVars)
    ]_vars

C22_ClosesNeverExceedOpens == base_closes <= base_opens

\* C23: with check_present = False nothing is validated: the construction
\* of the subset returns, base open or not, and so does the later open() of
\* a subset constructed that way, even when the base lacks a key.
C23_NoValidationWhenNotRequested ==
    [][/\ (op' = "subset" /\ ~flag') =>
             (ret' = "returned" /\ sub_keys' = kset')
       /\ (op' = "sub_open" /\ ~sub_req) => ret' = "returned"
    ]_vars

\* C24: save_dataset ends the same way with show_progress = False as with
\* show_progress = True: a call that meets no error of the source or the
\* destination (with show_progress = True such a call returns) returns.
C24_ProgressFlagIrrelevant ==
    (op = "save_all" /\ pc = "idle"
       /\ ret \notin {"IOError", "src_error", "dst_error"}) =>
        ret = "returned"

(***************************************************************************)
(* save_items on the destination of the pair                               *)
(***************************************************************************)

\* SavingDataset.save_items on the destination, up to the creation of the
\* progress bar
SaveItems(ow, sp) ==
    /\ pc = "idle"
    /\ dst_before' = dst /\ overwrite' = ow /\ show_progress' = sp
    /\ IF ~dst_open
       THEN /\ Called("save_items", 0, "IOError", 0, {})
            /\ pc' = pc
       ELSE /\ Called("save_items", 0, "none", 0,
                      IF sp THEN {"bar_init"} ELSE {})
            /\ pc' = "items"
    /\ UNCHANGED <<src, dst, src_open, dst_open, todo, cur, val>>
    /\ UNCHANGED outsidePair

\* save_items: `if key in self: if overwrite: delete_item else: continue`
NeverKeeps(key, ow) == FALSE
KeepsExisting(key, ow) == key \in DOMAIN dst /\ ~ow

\* save_items, one loop iteration: `for key, value in items: bar.next();
\* if key in self: ...; self.save_item(key, value)`.  items is any
\* iterable of pairs: each iteration takes whatever pair comes next.  A
\* raise of save_item ends the call.  ev notes "continue" for an item that
\* is passed over.
SaveItemsStep(key, value, saveOk) ==
    /\ pc = "items"
    /\ LET deletes == key \in DOMAIN dst /\ overwrite
           d == IF deletes THEN Remove(dst, key) ELSE dst
           bar == IF show_progress THEN {"bar_next"} ELSE {}
           del == IF deletes THEN {"delete_item"} ELSE {}
       IN  IF KeepsExisting(key, overwrite)
           THEN /\ dst' = dst /\ pc' = pc /\ ret' = ret
                /\ ev' = bar \cup {"continue"}
           ELSE IF saveOk
           THEN /\ dst' = Put(d, key, value) /\ pc' = pc /\ ret' = ret
                /\ ev' = bar \cup del \cup {"save_item"}
           ELSE /\ dst' = d /\ pc' = "idle" /\ ret' = "dst_error"
                /\ ev' = bar \cup del \cup {"save_item"}
    /\ UNCHANGED <<src, src_open, dst_open, todo, cur, val, overwrite,
                   show_progress, dst_before, op, prev_op, arg, out, outs,
                   kset, flag>>
    /\ UNCHANGED outsidePair

\* save_items: `bar.finish()` once items is exhausted; as in save_dataset,
\* DummyBar.finish raises TypeError
SaveItemsFinish ==
    /\ pc = "items"
    /\ pc' = "idle"
    /\ IF show_progress
       THEN ret' = "returned" /\ ev' = {"bar_finish"}
       ELSE ret' = "TypeError" /\ ev' = {}
    /\ UNCHANGED <<src, dst, src_open, dst_open, todo, cur, val, overwrite,
                   show_progress, dst_before, op, prev_op, arg, out,
                   outs, kset, flag>>
    /\ UNCHANGED outsidePair

FillInit == PairInit

\* the calls that fill the destination without overwriting: get,
\* save_all(overwrite=False) and save_items(items, overwrite=False)
FillNext ==
    \/ \E a, b \in BOOLEAN : Open(a, b)
    \/ \E k \in Keys, a, b \in BOOLEAN : Get(k, a, b)
    \/ \E sp, msg \in BOOLEAN : SaveAll(FALSE, sp, msg)
    \/ \E k \in Keys : LoopDelete(k)
    \/ \E a \in BOOLEAN : LoopRead(a)
    \/ \E a \in BOOLEAN : LoopSave(a)
    \/ LoopFinish
    \/ \E sp \in BOOLEAN : SaveItems(FALSE, sp)
    \/ \E k \in Keys, v \in Values, a \in BOOLEAN : SaveItemsStep(k, v, a)
    \/ SaveItemsFinish

SpecFill == FillInit /\ [][FillNext]_vars

\* C21: get, save_all(overwrite=False) and save_items(items,
\* overwrite=False) only add to the destination: every key the destination
\* holds before a step of one of them is still there after it, with the
\* same value.
C21_DestinationOnlyGrows ==
    [][(\/ op' = "get"
        \/ op' \in {"save_all", "save_items"} /\ ~overwrite') =>
           \A k \in DOMAIN dst : k \in DOMAIN dst' /\ dst'[k] = dst[k]
    ]_vars

\* a save_items(overwrite=False) over a non-empty destination that has
\* added a key and now passes over an item whose key it already holds
C21_Witness ==
    /\ op = "save_items" /\ ~overwrite /\ pc = "items"
    /\ "continue" \in ev
    /\ dst_before # EmptyDict
    /\ DOMAIN dst # DOMAIN dst_before
====
